---- MODULE Spec2Model ----
(***************************************************************************)
(* target-netsuite: one run of upload_journals.  A CSV of journal lines is *)
(* read, the reference data the input refers to is fetched, the rows are   *)
(* grouped and built into journal entries (build_lines), and the entries   *)
(* are posted one at a time.                                               *)
(*                                                                         *)
(* CSV cells are texts; the empty text is pandas' missing value.  The      *)
(* dtype pandas infers for a column (int64, float64, object) is modelled   *)
(* where the code branches on the Python type of a cell or prints it.      *)
(***************************************************************************)
EXTENDS Integers, Sequences, FiniteSets, TLC

VARIABLES
    pc,              \* position in upload_journals
    csv,             \* JournalEntries.csv: [columns, rows], rows in file order
    input_data,      \* the frame read_input_data returned
    reference_data,  \* kind -> records, the dict get_reference_data fills
    fetch_idx,       \* place in get_reference_data: index in FetchOrder
    fetch_calls,     \* kind -> number of get_all calls made for it
    snapshot,        \* reference_data as get_reference_data returned it
    journals,        \* the entries load_journal_entries returned
    post_idx,        \* index of the next entry to post
    submitted,       \* the records the platform accepted, in order
    error            \* [stage, exc]: the exception that ended the run

vars == <<pc, csv, input_data, reference_data, fetch_idx, fetch_calls,
          snapshot, journals, post_idx, submitted, error>>

(***************************************************************************)
(* Bounds of the model.                                                    *)
(***************************************************************************)
MaxRows == 2

(***************************************************************************)
(* Texts.  NA is the empty CSV cell.                                       *)
(***************************************************************************)
NA == ""

\* Python's None where a dict or record field has no value.
None == "None"

\* The characters of every text that is lower-cased, tested for digits or
\* fuzzy-matched.
CharsTable ==
    [s \in {"1", "2", "3", "HQ", "West", "HQ : West", "Wst", "East", "4000",
            "5000", "6000", "7000", "9999", "101", "102", "103", "104",
            "ACME", "BETA", "OLDCO", "NEWCO", "Acme", "Beta", "Gamma",
            "Nobody", "Sales", "Cash", "Misc", "Rent", "Rates", "Bogus",
            "nan", "Retail", "retail", "Online", "Retail : Online", "Ops",
            "Field", "Ops : Field", "debit", "Credit", "credit", "Other"} |->
        CASE s = "1" -> <<"1">>
          [] s = "2" -> <<"2">>
          [] s = "3" -> <<"3">>
          [] s = "HQ" -> <<"H", "Q">>
          [] s = "West" -> <<"W", "e", "s", "t">>
          [] s = "HQ : West" -> <<"H", "Q", " ", ":", " ", "W", "e", "s", "t">>
          [] s = "Wst" -> <<"W", "s", "t">>
          [] s = "East" -> <<"E", "a", "s", "t">>
          [] s = "4000" -> <<"4", "0", "0", "0">>
          [] s = "5000" -> <<"5", "0", "0", "0">>
          [] s = "6000" -> <<"6", "0", "0", "0">>
          [] s = "7000" -> <<"7", "0", "0", "0">>
          [] s = "9999" -> <<"9", "9", "9", "9">>
          [] s = "101" -> <<"1", "0", "1">>
          [] s = "102" -> <<"1", "0", "2">>
          [] s = "103" -> <<"1", "0", "3">>
          [] s = "104" -> <<"1", "0", "4">>
          [] s = "ACME" -> <<"A", "C", "M", "E">>
          [] s = "BETA" -> <<"B", "E", "T", "A">>
          [] s = "OLDCO" -> <<"O", "L", "D", "C", "O">>
          [] s = "NEWCO" -> <<"N", "E", "W", "C", "O">>
          [] s = "Acme" -> <<"A", "c", "m", "e">>
          [] s = "Beta" -> <<"B", "e", "t", "a">>
          [] s = "Gamma" -> <<"G", "a", "m", "m", "a">>
          [] s = "Nobody" -> <<"N", "o", "b", "o", "d", "y">>
          [] s = "Sales" -> <<"S", "a", "l", "e", "s">>
          [] s = "Cash" -> <<"C", "a", "s", "h">>
          [] s = "Misc" -> <<"M", "i", "s", "c">>
          [] s = "Rent" -> <<"R", "e", "n", "t">>
          [] s = "Rates" -> <<"R", "a", "t", "e", "s">>
          [] s = "Bogus" -> <<"B", "o", "g", "u", "s">>
          [] s = "nan" -> <<"n", "a", "n">>
          [] s = "Retail" -> <<"R", "e", "t", "a", "i", "l">>
          [] s = "retail" -> <<"r", "e", "t", "a", "i", "l">>
          [] s = "Online" -> <<"O", "n", "l", "i", "n", "e">>
          [] s = "Retail : Online" -> <<"R", "e", "t", "a", "i", "l", " ", ":", " ", "O", "n", "l", "i", "n", "e">>
          [] s = "Ops" -> <<"O", "p", "s">>
          [] s = "Field" -> <<"F", "i", "e", "l", "d">>
          [] s = "Ops : Field" -> <<"O", "p", "s", " ", ":", " ", "F", "i", "e", "l", "d">>
          [] s = "debit" -> <<"d", "e", "b", "i", "t">>
          [] s = "Credit" -> <<"C", "r", "e", "d", "i", "t">>
          [] s = "credit" -> <<"c", "r", "e", "d", "i", "t">>
          [] s = "Other" -> <<"O", "t", "h", "e", "r">>]

Chars(s) == CharsTable[s]

Digits == {"0", "1", "2", "3", "4", "5", "6", "7", "8", "9"}

UpperToLower ==
    [c \in {"A", "B", "C", "D", "E", "F", "G", "H", "L", "M", "N", "O", "Q", "R", "S", "T", "W"} |->
        CASE c = "A" -> "a"
          [] c = "B" -> "b"
          [] c = "C" -> "c"
          [] c = "D" -> "d"
          [] c = "E" -> "e"
          [] c = "F" -> "f"
          [] c = "G" -> "g"
          [] c = "H" -> "h"
          [] c = "L" -> "l"
          [] c = "M" -> "m"
          [] c = "N" -> "n"
          [] c = "O" -> "o"
          [] c = "Q" -> "q"
          [] c = "R" -> "r"
          [] c = "S" -> "s"
          [] c = "T" -> "t"
          [] c = "W" -> "w"]

\* str.lower(), on the characters
LowerChars(cs) ==
    [i \in 1..Len(cs) |->
        IF cs[i] \in DOMAIN UpperToLower THEN UpperToLower[cs[i]] ELSE cs[i]]

\* str.isdigit()
IsDigit(s) ==
    /\ s \in DOMAIN CharsTable
    /\ Len(Chars(s)) > 0
    /\ \A i \in 1..Len(Chars(s)) : Chars(s)[i] \in Digits

\* The texts in the order Python compares str (code points): digits, upper
\* case, lower case.  Rank gives a text's place in it.
TextOrder ==
    <<"1", "101", "102", "103", "104", "2", "3", "4000", "5000", "6000",
      "7000", "9999", "ACME", "Acme", "BETA", "Beta", "Bogus", "Cash",
      "Credit", "East", "Field", "Gamma", "HQ", "HQ : West", "JE1", "JE2",
      "JE3", "Misc", "NEWCO", "Nobody", "OLDCO", "Online", "Ops",
      "Ops : Field", "Other", "Rates", "Rent", "Retail", "Retail : Online",
      "Sales", "West", "Wst", "credit", "debit", "nan", "retail">>

Rank(s) == CHOOSE i \in 1..Len(TextOrder) : TextOrder[i] = s


(***************************************************************************)
(* difflib.SequenceMatcher, as get_close_matches uses it.                  *)
(***************************************************************************)
\* The one element of a singleton: The({e(v) : v \in {d}}) is e with v
\* standing for the value of d.
The(S) == CHOOSE e \in S : TRUE

Max(S) == CHOOSE x \in S : \A y \in S : y <= x
Min(S) == CHOOSE x \in S : \A y \in S : x <= y

\* Length of the common run of a from i and b from j, inside [i, ahi) and
\* [j, bhi).
RECURSIVE RunLength(_, _, _, _, _, _)
RunLength(a, b, i, j, ahi, bhi) ==
    IF i < ahi /\ j < bhi /\ a[i] = b[j]
    THEN 1 + RunLength(a, b, i + 1, j + 1, ahi, bhi)
    ELSE 0

\* SequenceMatcher.find_longest_match: the longest block of a[alo, ahi) and
\* b[blo, bhi), the earliest in a and then the earliest in b: [i, j, k]
LongestMatch(a, b, alo, ahi, blo, bhi) ==
    The({ LET k == Max({run[p] : p \in DOMAIN run})
              i == Min({p[1] : p \in {q \in DOMAIN run : run[q] = k}})
              j == Min({p[2] : p \in {q \in DOMAIN run :
                                         run[q] = k /\ q[1] = i}})
          IN  [i |-> i, j |-> j, k |-> k]
          : run \in {[p \in (alo..(ahi - 1)) \X (blo..(bhi - 1)) |->
                        RunLength(a, b, p[1], p[2], ahi, bhi)]} })

\* SequenceMatcher.get_matching_blocks: the longest block, then the same to
\* its left and to its right; the total size of the blocks.
RECURSIVE MatchingSize(_, _, _, _, _, _)
MatchingSize(a, b, alo, ahi, blo, bhi) ==
    IF alo >= ahi \/ blo >= bhi THEN 0
    ELSE The({ IF m.k = 0 THEN 0
               ELSE m.k + MatchingSize(a, b, alo, m.i, blo, m.j)
                        + MatchingSize(a, b, m.i + m.k, ahi, m.j + m.k, bhi)
               : m \in {LongestMatch(a, b, alo, ahi, blo, bhi)} })

\* SequenceMatcher.ratio() of seq1 = x.lower() and seq2 = word.lower(), as the
\* fraction num / den = 2 * matches / (len(seq1) + len(seq2)); 1.0 when both
\* are empty.
Ratio(x, word) ==
    LET a == LowerChars(Chars(x))
        b == LowerChars(Chars(word))
        t == Len(a) + Len(b)
    IN  IF t = 0 THEN [num |-> 1, den |-> 1]
        ELSE [num |-> 2 * MatchingSize(a, b, 1, Len(a) + 1, 1, Len(b) + 1),
              den |-> t]

\* r1 >= r2, r1 > r2 and r1 = r2 on fractions
FracGe(r1, r2) == r1.num * r2.den >= r2.num * r1.den
FracGt(r1, r2) == r1.num * r2.den > r2.num * r1.den
FracEq(r1, r2) == r1.num * r2.den = r2.num * r1.den

\* The default cutoff 0.7 and the customer cutoff 0.95.
DefaultCutoff == [num |-> 7, den |-> 10]
CustomerCutoff == [num |-> 19, den |-> 20]
\* The default n of get_close_matches.
DefaultN == 20

\* Tuple order of heapq.nlargest on (ratio, x): e1 > e2
ScoredGt(e1, e2) ==
    \/ FracGt(e1.score, e2.score)
    \/ FracEq(e1.score, e2.score) /\ Rank(e1.name) > Rank(e2.name)

\* The sequence s without its i-th element
RemoveAt(s, i) == [k \in 1..(Len(s) - 1) |-> IF k < i THEN s[k] ELSE s[k + 1]]

\* heapq.nlargest(n, result): the n largest, largest first
RECURSIVE NLargest(_, _)
NLargest(n, result) ==
    IF n = 0 \/ Len(result) = 0 THEN <<>>
    ELSE
        LET i == CHOOSE i \in 1..Len(result) :
                     \A k \in 1..Len(result) : ~ScoredGt(result[k], result[i])
        IN  <<result[i]>> \o NLargest(n - 1, RemoveAt(result, i))

\* A dict as the sequence of its items in insertion order.
DictKeys(d) == {d[i].name : i \in 1..Len(d)}

\* d[key] = value
DictSet(d, item) ==
    IF item.name \in DictKeys(d)
    THEN [i \in 1..Len(d) |-> IF d[i].name = item.name THEN item ELSE d[i]]
    ELSE Append(d, item)

\* dict.update(other); also {v: k for (k, v) in result} from the empty dict
RECURSIVE DictUpdate(_, _)
DictUpdate(d, other) ==
    IF Len(other) = 0 THEN d
    ELSE DictUpdate(DictSet(d, Head(other)), Tail(other))

\* max(d, key=d.get): the first key, in insertion order, of the largest value
DictMax(d) ==
    LET i == Min({i \in 1..Len(d) :
                     \A k \in 1..Len(d) : FracGe(d[i].score, d[k].score)})
    IN  d[i].name

\* get_close_matches(word, possibilities, n, cutoff).  real_quick_ratio() and
\* quick_ratio() are upper bounds of ratio(), so the three tests are the last.
get_close_matches(word, possibilities, n, cutoff) ==
    LET scored == [i \in 1..Len(possibilities) |->
                      [name |-> possibilities[i],
                       score |-> Ratio(possibilities[i], word)]]
        result == SelectSeq(scored, LAMBDA e : FracGe(e.score, cutoff))
    IN  DictUpdate(<<>>, NLargest(n, result))


(***************************************************************************)
(* The platform's master data, as get_all returns it (BaseFilter.get_all   *)
(* keeps the selected fields plus externalId and internalId; a record      *)
(* reference list becomes a list of dicts).  parent holds the parent's     *)
(* name.  Customer records have no "name" field.                           *)
(***************************************************************************)
RecordRef(id, name) ==
    [name |-> name, internalId |-> id, externalId |-> None, type |-> None]

NSSubsidiaries ==
    << [internalId |-> "1", externalId |-> None, name |-> "HQ", parent |-> None],
       [internalId |-> "2", externalId |-> None, name |-> "West", parent |-> "HQ"] >>

NSAccounts ==
    << [internalId |-> "11", externalId |-> None, acctNumber |-> "4000",
        acctName |-> "Sales", parent |-> None,
        subsidiaryList |-> <<RecordRef("1", "HQ")>>],
       [internalId |-> "12", externalId |-> None, acctNumber |-> "5000",
        acctName |-> "Cash", parent |-> None,
        subsidiaryList |-> <<RecordRef("2", "West"), RecordRef("1", "HQ")>>],
       [internalId |-> "13", externalId |-> None, acctNumber |-> "6000",
        acctName |-> "Misc", parent |-> None,
        subsidiaryList |-> <<>>],
       [internalId |-> "14", externalId |-> None, acctNumber |-> "7000",
        acctName |-> "Rent", parent |-> None,
        subsidiaryList |-> <<RecordRef("1", "HQ")>>],
       [internalId |-> "15", externalId |-> None, acctNumber |-> "7000",
        acctName |-> "Rates", parent |-> None,
        subsidiaryList |-> <<RecordRef("1", "HQ")>>] >>

NSCustomers ==
    << [internalId |-> "101", externalId |-> None, entityId |-> "ACME",
        altName |-> None, companyName |-> "Acme",
        subsidiary |-> RecordRef("1", "HQ"), isInactive |-> FALSE],
       [internalId |-> "102", externalId |-> None, entityId |-> "BETA",
        altName |-> None, companyName |-> "Beta",
        subsidiary |-> RecordRef("2", "West"), isInactive |-> FALSE],
       [internalId |-> "103", externalId |-> None, entityId |-> "OLDCO",
        altName |-> None, companyName |-> "Gamma",
        subsidiary |-> RecordRef("1", "HQ"), isInactive |-> TRUE],
       [internalId |-> "104", externalId |-> None, entityId |-> "NEWCO",
        altName |-> None, companyName |-> "Gamma",
        subsidiary |-> RecordRef("1", "HQ"), isInactive |-> FALSE] >>

NSCurrencies ==
    << [internalId |-> "1", externalId |-> None, symbol |-> "USD"] >>

NSClassifications ==
    << [internalId |-> "21", externalId |-> None, name |-> "Retail",
        parent |-> None],
       [internalId |-> "22", externalId |-> None, name |-> "Online",
        parent |-> "Retail"],
       [internalId |-> "23", externalId |-> None, name |-> "retail",
        parent |-> None] >>

NSDepartments ==
    << [internalId |-> "31", externalId |-> None, name |-> "Ops",
        parent |-> None],
       [internalId |-> "32", externalId |-> None, name |-> "Field",
        parent |-> "Ops"] >>

\* The second location came without an internalId
NSLocations ==
    << [internalId |-> "41", externalId |-> None, name |-> "Depot"],
       [internalId |-> None, externalId |-> None, name |-> "Yard"] >>
NSItems ==
    << [internalId |-> "51", externalId |-> None, itemId |-> "SKU1"] >>

\* The configuration of the run: the custom field of the SKU, looked up
\* among the items, and two custom fields read from columns of the file
config ==
    [sku_custom_field |-> "custcol_sku",
     sku_item_lookup |-> TRUE,
     custom_fields |->
        << [input_id |-> "Project", netsuite_id |-> "custcol_project"],
           [input_id |-> "Region", netsuite_id |-> "custcol_region"] >>]

\* ns_client.entities[kind](ns_client.client).get_all(...)
GetAll(kind) ==
    CASE kind = "Locations" -> NSLocations
      [] kind = "Customer" -> NSCustomers
      [] kind = "Classifications" -> NSClassifications
      [] kind = "Currencies" -> NSCurrencies
      [] kind = "Subsidiaries" -> NSSubsidiaries
      [] kind = "Departments" -> NSDepartments
      [] kind = "Items" -> NSItems
      [] kind = "Accounts" -> NSAccounts

(***************************************************************************)
(* pandas.  A frame is [columns, rows, dtypes]; a value read from it is    *)
(* [kind, text] with kind the Python type: "str", "int", "float" (also     *)
(* numpy.float64, a float), "npint" (numpy.int64, not an int), "nan" and   *)
(* "none".                                                                 *)
(***************************************************************************)
\* Amount texts and their value in thousandths.
AmountMilli ==
    [t \in {"-150.555", "100", "0.125"} |->
        CASE t = "-150.555" -> -150555
          [] t = "100" -> 100000
          [] t = "0.125" -> 125]

IsNumeric(s) == IsDigit(s) \/ s \in DOMAIN AmountMilli

\* The dtype read_csv infers for column c of rows.
InferDtype(rows, c) ==
    LET cells == {rows[i][c] : i \in 1..Len(rows)} \ {NA}
    IN  IF \A t \in cells : IsDigit(t)
        THEN IF cells = {} \/ \E i \in 1..Len(rows) : rows[i][c] = NA
             THEN "float64" ELSE "int64"
        ELSE IF \A t \in cells : IsNumeric(t) THEN "float64" ELSE "object"

PdNone == [kind |-> "none", text |-> NA]
PdNaN == [kind |-> "nan", text |-> NA]

\* row.get(c) of a row that iterrows yields (values of an object Series are
\* Python objects); an object column holds None where the cell was missing
\* (input_data.where(pd.notnull(input_data), None)), a float column NaN.
RowGet(x, row, c) ==
    IF c \notin x.columns THEN PdNone
    ELSE IF x.dtypes[c] = "object"
         THEN IF row[c] = NA THEN PdNone ELSE [kind |-> "str", text |-> row[c]]
    ELSE IF x.dtypes[c] = "int64" THEN [kind |-> "int", text |-> row[c]]
    ELSE IF row[c] = NA THEN PdNaN ELSE [kind |-> "float", text |-> row[c]]

\* x[c].iloc[0]: a scalar of the column's dtype
ILoc0(x, c) ==
    LET row == x.rows[1]
    IN  IF x.dtypes[c] = "object"
        THEN IF row[c] = NA THEN PdNone ELSE [kind |-> "str", text |-> row[c]]
        ELSE IF x.dtypes[c] = "int64" THEN [kind |-> "npint", text |-> row[c]]
        ELSE IF row[c] = NA THEN PdNaN ELSE [kind |-> "float", text |-> row[c]]

\* pd.isna(v)
IsNa(v) == v.kind \in {"nan", "none"}

\* bool(v)
Truthy(v) ==
    CASE v.kind = "none" -> FALSE
      [] v.kind = "nan" -> TRUE
      [] v.kind = "str" -> v.text # ""
      [] OTHER -> v.text # "0"

\* str(v)
PyStr(v) ==
    CASE v.kind = "none" -> "None"
      [] v.kind = "nan" -> "nan"
      [] v.kind = "float" -> v.text \o ".0"
      [] OTHER -> v.text

\* ref_data.get(kind): the records, or the empty list for None
RefGet(ref_data, kind) ==
    IF kind \in DOMAIN ref_data THEN ref_data[kind] ELSE <<>>

\* d.get(k)
Get(d, k) == IF k \in DOMAIN d THEN d[k] ELSE None

\* The result of a step of build_lines that did not raise
NoExc == ""


\* None in a place that otherwise holds a dict
NoneRef == [isNone |-> TRUE]

SeqMap(f(_), s) == [i \in 1..Len(s) |-> f(s[i])]

\* s.lower() == t
LowerIs(s, t) == LowerChars(Chars(s)) = Chars(t)

(***************************************************************************)
(* build_lines, step by step.  Every step returns exc, the exception it    *)
(* raised (NoExc if none).                                                 *)
(***************************************************************************)

\* The journal-level subsidiary of a group.
JournalSubsidiary(x, ref_data) ==
    LET unset == [exc |-> NoExc, set |-> FALSE, internalId |-> None,
                  has_name |-> FALSE]
        subs == RefGet(ref_data, "Subsidiaries")
    IN  IF ~(Len(subs) > 0 /\ "Subsidiary" \in x.columns /\ Len(x.rows) > 0)
        THEN unset
        ELSE
            LET v == ILoc0(x, "Subsidiary")
                named == SelectSeq(subs, LAMBDA r :
                             v.kind = "str" /\ r.name = v.text)
            IN  IF ~Truthy(v) THEN unset
                ELSE IF v.kind = "str" /\ IsDigit(v.text)
                THEN [unset EXCEPT !.set = TRUE, !.internalId = v.text]
                ELSE IF v.kind \in {"int", "float"}
                THEN [unset EXCEPT !.set = TRUE, !.internalId = v.text]
                ELSE IF v.kind = "nan"
                THEN [unset EXCEPT !.exc = "ValueError"]
                ELSE IF Len(named) = 0
                THEN [unset EXCEPT !.exc = "Exception"]
                ELSE [unset EXCEPT !.set = TRUE,
                                   !.internalId = named[1].internalId,
                                   !.has_name = TRUE]

\* "parent : name" of the records with a parent, then the names of those
\* without
QualifiedName(r, f) == r.parent \o " : " \o r[f]

HierarchicalNames(records, f) ==
    LET Q(r) == QualifiedName(r, f)
        P(r) == r[f]
    IN  SeqMap(Q, SelectSeq(records, LAMBDA r : r.parent # None))
        \o SeqMap(P, SelectSeq(records, LAMBDA r : r.parent = None))

\* The records whose qualified name or plain name is name
NamedRecords(records, f, name) ==
    SelectSeq(records, LAMBDA r :
        \/ r.parent # None /\ QualifiedName(r, f) = name
        \/ r[f] = name)

\* The accounts a duplicated Account Number is narrowed to by Account Name
AccountsByName(accounts, acct_name) ==
    The({ IF Len(matches) = 0
          THEN [exc |-> "ValueError", skip |-> FALSE, acct_data |-> <<>>]
          ELSE LET by_name == NamedRecords(accounts, "acctName",
                                  DictMax(matches))
               IN  [exc |-> IF Len(by_name) = 0 THEN "ValueError" ELSE NoExc,
                    skip |-> FALSE, acct_data |-> by_name]
          : matches \in {get_close_matches(acct_name,
                             HierarchicalNames(accounts, "acctName"),
                             DefaultN, DefaultCutoff)} })

\* A row left out of the entry: the loop goes on with the next row
SkipAccount == [exc |-> NoExc, skip |-> TRUE, acct_data |-> <<>>]

\* "Account Number ... is not found in this Netsuite account"
AccountNumberNotFound ==
    [exc |-> "ValueError", skip |-> FALSE, acct_data |-> <<>>]

\* "... is not valid for this netsuite account, skipping line"
AccountNameNotFound == [exc |-> NoExc, skip |-> TRUE, acct_data |-> <<>>]

\* The account of a row: acct_data, or skip for a row to leave out.
ResolveAccount(x, row, ref_data) ==
    LET accounts == RefGet(ref_data, "Accounts")
        number == RowGet(x, row, "Account Number")
        name == RowGet(x, row, "Account Name")
        res == [exc |-> NoExc, skip |-> FALSE, acct_data |-> <<>>]
    IN  IF Len(accounts) > 0 /\ Truthy(number) /\ ~IsNa(number)
        THEN
            LET by_number == SelectSeq(accounts, LAMBDA a :
                                 a.acctNumber = PyStr(number))
            IN  IF Len(by_number) = 0
                THEN AccountNumberNotFound
                ELSE IF Len(by_number) > 1 /\ Truthy(name)
                THEN AccountsByName(accounts, PyStr(name))
                ELSE [res EXCEPT !.acct_data = by_number]
        ELSE IF Len(accounts) > 0 /\ Truthy(name) /\ ~IsNa(name)
        THEN
            LET by_name == SelectSeq(accounts, LAMBDA a :
                               a.acctName = PyStr(name))
            IN  IF Len(by_name) = 0
                THEN AccountNameNotFound
                ELSE [res EXCEPT !.acct_data = by_name]
        ELSE [res EXCEPT !.exc = "TypeError"]

\* The subsidiary dict built from a row-level value
RowSubsidiaryRef(id) == [name |-> None, externalId |-> None, internalId |-> id]

\* The subsidiary a row names: the best match among the hierarchical names
\* and the plain names
SubsidiaryByName(subs, text) ==
    LET P(r) == r.name
        res == [exc |-> NoExc, set |-> FALSE, subsidiary |-> NoneRef]
    IN  The({ IF Len(subsidiary_name) = 0 THEN res
              ELSE LET subsidiary_data ==
                           NamedRecords(subs, "name", DictMax(subsidiary_name))
                   IN  IF Len(subsidiary_data) = 0 THEN res
                       ELSE [res EXCEPT
                               !.set = TRUE,
                               !.subsidiary = RowSubsidiaryRef(
                                   subsidiary_data[1].internalId)]
              : subsidiary_name \in
                  {DictUpdate(
                       get_close_matches(text, HierarchicalNames(subs, "name"),
                           DefaultN, DefaultCutoff),
                       get_close_matches(text, SeqMap(P, subs),
                           DefaultN, DefaultCutoff))} })

\* The subsidiary of a row: the row's Subsidiary, else the first of the
\* account's subsidiaryList.
ResolveSubsidiary(x, row, acct_data, ref_data) ==
    LET v == RowGet(x, row, "Subsidiary")
        res == [exc |-> NoExc, set |-> FALSE, subsidiary |-> NoneRef]
    IN  IF ~IsNa(v)
        THEN
            IF (v.kind = "str" /\ IsDigit(v.text)) \/ v.kind \in {"int", "float"}
            THEN [res EXCEPT !.set = TRUE, !.subsidiary = RowSubsidiaryRef(v.text)]
            ELSE IF "Subsidiaries" \notin DOMAIN ref_data
            THEN [res EXCEPT !.exc = "KeyError"]
            ELSE SubsidiaryByName(ref_data["Subsidiaries"], v.text)
        ELSE IF Len(acct_data.subsidiaryList) > 0
             THEN [res EXCEPT !.set = TRUE,
                              !.subsidiary = acct_data.subsidiaryList[1]]
             ELSE res

\* The names a customer goes by: name, entityId, altName, companyName
CustomerAliases == <<"name", "entityId", "altName", "companyName">>

\* The aliases of c that have a value, in the order above
AliasesOf(c) ==
    LET A(k) == Get(c, k)
    IN  SelectSeq(SeqMap(A, CustomerAliases), LAMBDA n : n # None)

RECURSIVE Flatten(_)
Flatten(ss) == IF Len(ss) = 0 THEN <<>> ELSE Head(ss) \o Flatten(Tail(ss))

\* customer_data: c once for every alias of c equal to name
CustomersNamed(customers, name) ==
    LET Hits(c) == SeqMap(LAMBDA n : c,
                       SelectSeq(AliasesOf(c), LAMBDA n : n = name))
    IN  Flatten(SeqMap(Hits, customers))

InSeq(e, s) == \E i \in 1..Len(s) : s[i] = e

\* The customers as they are, of whatever subsidiary
AnySubsidiary(customers, journal_subsidiary) == customers

\* The subsidiary scoping of a list of customers
ScopeToSubsidiary(customers, journal_subsidiary) ==
    IF journal_subsidiary.set
    THEN SelectSeq(customers, LAMBDA c :
             c.subsidiary.internalId = journal_subsidiary.internalId)
    ELSE customers

EntityRef(c) == [externalId |-> c.externalId, internalId |-> c.internalId]

\* The customers a Customer ID finds: active, of the journal subsidiary, and
\* of the row's company name when more than one is left
CustomersById(customers, customer_id, customer_name, journal_subsidiary) ==
    The({ IF Len(scoped) > 1 /\ Truthy(customer_name)
          THEN SelectSeq(scoped, LAMBDA c :
                   Get(c, "companyName") = PyStr(customer_name))
          ELSE scoped
          : scoped \in {ScopeToSubsidiary(
                SelectSeq(customers, LAMBDA c :
                    /\ \/ c.internalId = PyStr(customer_id)
                       \/ c.entityId = PyStr(customer_id)
                    /\ c.isInactive = FALSE),
                journal_subsidiary)} })

\* The names the active customers go by
ActiveCustomerNames(customers) ==
    Flatten(SeqMap(AliasesOf, SelectSeq(customers, LAMBDA c : ~c.isInactive)))

\* The matches of a Customer Name: itself when it is one of the names
CustomerMatches(customer_names, text) ==
    IF InSeq(text, customer_names)
    THEN <<[name |-> text, score |-> [num |-> 1, den |-> 1]]>>
    ELSE get_close_matches(text, customer_names, 2, CustomerCutoff)

\* The customer of a row by Customer Name
CustomerByName(customers, customer_name, journal_subsidiary) ==
    LET res == [exc |-> NoExc, set |-> FALSE, entity |-> NoneRef]
    IN  IF customer_name.kind # "str"
        THEN [res EXCEPT !.exc = "AttributeError"]
        ELSE The({
            IF Len(matches) = 0 THEN res
            ELSE The({
                IF Len(customer_data) = 0
                THEN [res EXCEPT !.exc = "Exception"]
                ELSE The({
                    IF Len(in_sub) > 0
                    THEN [res EXCEPT !.set = TRUE,
                                     !.entity = EntityRef(in_sub[1])]
                    ELSE IF journal_subsidiary.has_name
                    THEN [res EXCEPT !.exc = "Exception"]
                    ELSE [res EXCEPT !.exc = "KeyError"]
                    : in_sub \in {ScopeToSubsidiary(customer_data,
                                      journal_subsidiary)} })
                : customer_data \in
                    {CustomersNamed(customers, DictMax(matches))} })
            : matches \in {CustomerMatches(ActiveCustomerNames(customers),
                               customer_name.text)} })

\* The customer of a row, by Customer ID and else by Customer Name.
ResolveCustomer(x, row, ref_data, journal_subsidiary) ==
    LET customers == RefGet(ref_data, "Customer")
        customer_name == RowGet(x, row, "Customer Name")
        customer_id == RowGet(x, row, "Customer ID")
        res == [exc |-> NoExc, set |-> FALSE, entity |-> NoneRef]
    IN  IF ~(Len(customers) > 0 /\ ~(IsNa(customer_name) /\ IsNa(customer_id)))
        THEN res
        ELSE The({
            IF Truthy(customer_id) /\ Len(customer) > 0
            THEN [res EXCEPT !.set = TRUE, !.entity = EntityRef(customer[1])]
            ELSE CustomerByName(customers, customer_name, journal_subsidiary)
            : customer \in
                {IF Truthy(customer_id)
                 THEN CustomersById(customers, customer_id, customer_name,
                          journal_subsidiary)
                 ELSE <<>>} })

\* The reference a line carries under key for the record r
NamedRef(key, r) ==
    key :> [name |-> r.name, externalId |-> r.externalId,
            internalId |-> r.internalId]

\* The class or department key of a line: the first record of the best match
\* of v among the hierarchical names; no key when nothing matches
HierarchicalRef(key, records, v) ==
    LET none == [exc |-> NoExc, keys |-> <<>>]
    IN  IF ~(Len(records) > 0 /\ Truthy(v) /\ ~IsNa(v)) THEN none
        ELSE IF v.kind # "str" THEN [none EXCEPT !.exc = "AttributeError"]
        ELSE The({
            IF Len(matches) = 0 THEN none
            ELSE The({
                IF Len(data) = 0 THEN none
                ELSE [none EXCEPT !.keys = NamedRef(key, data[1])]
                : data \in {NamedRecords(records, "name", DictMax(matches))} })
            : matches \in {get_close_matches(v.text,
                               HierarchicalNames(records, "name"),
                               DefaultN, DefaultCutoff)} })

ResolveClass(x, row, ref_data) ==
    HierarchicalRef("class", RefGet(ref_data, "Classifications"),
        RowGet(x, row, "Class"))

ResolveDepartment(x, row, ref_data) ==
    HierarchicalRef("department", RefGet(ref_data, "Departments"),
        RowGet(x, row, "Department"))

\* The location key of a line: the first location of exactly that name
ResolveLocation(x, row, ref_data) ==
    LET locations == RefGet(ref_data, "Locations")
        v == RowGet(x, row, "Location")
        none == [exc |-> NoExc, keys |-> <<>>]
    IN  IF ~(Len(locations) > 0 /\ Truthy(v) /\ ~IsNa(v)) THEN none
        ELSE The({
            IF Len(loc_data) = 0 THEN none
            ELSE [none EXCEPT !.keys = NamedRef("location", loc_data[1])]
            : loc_data \in {SelectSeq(locations, LAMBDA l :
                                v.kind = "str" /\ l.name = v.text)} })

\* The class, department and location keys of a line
LineRefs(x, row, ref_data) ==
    The({
        IF class.exc # NoExc THEN class
        ELSE The({
            IF department.exc # NoExc THEN department
            ELSE [exc |-> NoExc,
                  keys |-> class.keys @@ department.keys
                           @@ ResolveLocation(x, row, ref_data).keys]
            : department \in {ResolveDepartment(x, row, ref_data)} })
        : class \in {ResolveClass(x, row, ref_data)} })

\* A Python list and a Python dict, told apart by py
PyList(items) == [py |-> "list", items |-> items]

\* [{"type": "Select", "scriptId": script_id, "value": value}]: the list of
\* one dict that build_lines appends for a custom field
SelectField(script_id, value) ==
    PyList(<<[py |-> "dict", type |-> "Select", scriptId |-> script_id,
              value |-> value]>>)

\* What the SKU of a row appends to custom_field_values
SkuFields(x, row, ref_data) ==
    LET sku == RowGet(x, row, "SKU")
        items == SelectSeq(RefGet(ref_data, "Items"), LAMBDA i :
                     sku.kind = "str"
                     /\ (i.externalId = sku.text \/ i.itemId = sku.text))
    IN  IF ~(Truthy(sku) /\ ~IsNa(sku)) THEN <<>>
        ELSE IF config.sku_item_lookup
        THEN IF Len(items) > 0
             THEN <<SelectField(config.sku_custom_field,
                        [kind |-> "str", text |-> items[1].internalId])>>
             ELSE <<>>
        ELSE <<SelectField(config.sku_custom_field, sku)>>

\* What the configured custom fields append, from the n-th on
RECURSIVE ConfiguredFields(_, _, _)
ConfiguredFields(x, row, n) ==
    IF n > Len(config.custom_fields) THEN <<>>
    ELSE LET entry == config.custom_fields[n]
             value == RowGet(x, row, entry.input_id)
         IN  (IF Truthy(value)
              THEN <<SelectField(entry.netsuite_id, value)>> ELSE <<>>)
             \o ConfiguredFields(x, row, n + 1)

\* The customFieldList key of a line: none for an empty list
CustomFieldList(x, row, ref_data) ==
    The({ IF Len(custom_field_values) > 0
          THEN [customFieldList |-> custom_field_values] ELSE <<>>
          : custom_field_values \in
              {SkuFields(x, row, ref_data) \o ConfiguredFields(x, row, 1)} })

\* abs(round(amount, 2)) of an amount in thousandths, in hundredths: round
\* half to even
RoundAbs(milli) ==
    LET m == IF milli < 0 THEN -milli ELSE milli
        q == m \div 10
        r == m % 10
    IN  IF r < 5 THEN q
        ELSE IF r > 5 THEN q + 1
        ELSE IF q % 2 = 0 THEN q ELSE q + 1

\* The amount of a line, in hundredths
LineAmount(x, row) ==
    LET v == RowGet(x, row, "Amount")
    IN  IF IsNa(v) THEN 0 ELSE RoundAbs(AmountMilli[v.text])

\* The credit or debit key of a line
PostingKeys(posting_type, amount) ==
    IF LowerIs(posting_type, "credit") THEN [credit |-> amount]
    ELSE IF LowerIs(posting_type, "debit") THEN [debit |-> amount]
    ELSE <<>>

\* The sides exchanged: credit rows to subsidiary, debit rows to toSubsidiary
SubsidiaryKeySwapped(posting_type) ==
    IF LowerIs(posting_type, "credit") THEN "subsidiary"
    ELSE IF LowerIs(posting_type, "debit") THEN "toSubsidiary"
    ELSE ""

\* The side of the entry a row's subsidiary goes to; "" raises
SubsidiaryKey(posting_type) ==
    IF LowerIs(posting_type, "credit") THEN "toSubsidiary"
    ELSE IF LowerIs(posting_type, "debit") THEN "subsidiary"
    ELSE ""

\* The line of a row whose account is acct_data, added to acc
LineOf(acc, x, row, acct_data, sub, refs, customer, custom) ==
    LET posting == RowGet(x, row, "Posting Type")
        Raise(e) == [acc EXCEPT !.exc = e]
    IN  IF sub.exc # NoExc THEN Raise(sub.exc)
        ELSE IF sub.set /\ posting.kind # "str" THEN Raise("AttributeError")
        ELSE IF sub.set /\ SubsidiaryKey(posting.text) = ""
        THEN Raise("TypeError")
        ELSE IF refs.exc # NoExc THEN Raise(refs.exc)
        ELSE IF customer.exc # NoExc THEN Raise(customer.exc)
        ELSE IF "Amount" \notin x.columns THEN Raise("KeyError")
        ELSE IF posting.kind # "str" THEN Raise("AttributeError")
        ELSE [acc EXCEPT
                !.line_items = Append(@,
                    [account |-> [name |-> acct_data.acctName,
                                  externalId |-> acct_data.externalId,
                                  internalId |-> acct_data.internalId]]
                    @@ refs.keys
                    @@ (IF customer.set
                        THEN [entity |-> customer.entity] ELSE <<>>)
                    @@ custom
                    @@ PostingKeys(posting.text, LineAmount(x, row))
                    @@ (IF "Description" \in x.columns
                        THEN [memo |-> row["Description"]] ELSE <<>>)),
                !.subsidiaries =
                    IF sub.set
                    THEN (SubsidiaryKey(posting.text) :> sub.subsidiary) @@ @
                    ELSE @]

\* One pass of the loop over the rows of a group: acc is [exc, line_items,
\* subsidiaries].  The customer is resolved only when the subsidiary did
\* not raise.
BuildLine(acc, x, row, ref_data, journal_subsidiary) ==
    The({ IF account.exc # NoExc THEN [acc EXCEPT !.exc = account.exc]
          ELSE IF account.skip THEN acc
          ELSE The({ The({ LineOf(acc, x, row, account.acct_data[1], sub,
                               LineRefs(x, row, ref_data), customer,
                               CustomFieldList(x, row, ref_data))
                           : customer \in
                               {IF sub.exc # NoExc
                                THEN [exc |-> NoExc, set |-> FALSE,
                                      entity |-> NoneRef]
                                ELSE ResolveCustomer(x, row, ref_data,
                                         journal_subsidiary)} })
                     : sub \in {ResolveSubsidiary(x, row,
                                    account.acct_data[1], ref_data)} })
          : account \in {ResolveAccount(x, row, ref_data)} })

RECURSIVE BuildLoop(_, _, _, _, _)
BuildLoop(acc, x, i, ref_data, journal_subsidiary) ==
    IF i > Len(x.rows) \/ acc.exc # NoExc THEN acc
    ELSE BuildLoop(BuildLine(acc, x, x.rows[i], ref_data, journal_subsidiary),
                   x, i + 1, ref_data, journal_subsidiary)

\* An entry without currency, and no exception
CurrencyLeftOut == [exc |-> NoExc, currency |-> NoneRef]

\* raise Exception(f"Currency '{row['Currency']}' not found")
CurrencyNotFound == [exc |-> "Exception", currency |-> NoneRef]

\* The currency of the entry, from the last row of the group
ResolveCurrency(x, ref_data) ==
    LET currencies == RefGet(ref_data, "Currencies")
        v == RowGet(x, x.rows[Len(x.rows)], "Currency")
        res == [exc |-> NoExc, currency |-> NoneRef]
    IN  IF Len(currencies) > 0 /\ Truthy(v)
        THEN
            LET currency_data == SelectSeq(currencies, LAMBDA c :
                                     c.symbol = PyStr(v))
            IN  IF Len(currency_data) = 0
                THEN CurrencyNotFound
                ELSE [res EXCEPT !.currency =
                        [name |-> currency_data[1].symbol,
                         externalId |-> currency_data[1].externalId,
                         internalId |-> currency_data[1].internalId]]
        ELSE res

\* Both sides kept, equal or not
KeepBothSubsidiaries(subsidiaries) == subsidiaries

\* del subsidiaries['toSubsidiary'] when both sides hold the same dict
DropDuplicateSubsidiary(subsidiaries) ==
    IF Cardinality(DOMAIN subsidiaries) > 1
       /\ subsidiaries["subsidiary"] = subsidiaries["toSubsidiary"]
    THEN [k \in {"subsidiary"} |-> subsidiaries[k]]
    ELSE subsidiaries

\* The entry of a group whose lines are built
EntryOf(x, acc, currency) ==
    [createdDate |-> x.rows[1]["Transaction Date"],
     tranDate |-> x.rows[1]["Transaction Date"],
     externalId |-> x.rows[1]["Journal Entry Id"],
     lineList |-> acc.line_items,
     currency |-> currency.currency]
    @@ (IF "JournalDesc" \in x.columns
        THEN [memo |-> x.rows[1]["JournalDesc"]] ELSE <<>>)
    @@ DropDuplicateSubsidiary(acc.subsidiaries)

\* build_lines(x, ref_data, config): [exc, journal_entry]
build_lines(x, ref_data) ==
    LET res == [exc |-> NoExc, journal_entry |-> <<>>]
    IN  The({
        IF journal_subsidiary.exc # NoExc
        THEN [res EXCEPT !.exc = journal_subsidiary.exc]
        ELSE The({
            IF acc.exc # NoExc THEN [res EXCEPT !.exc = acc.exc]
            ELSE IF Len(x.rows) = 0
            THEN [res EXCEPT !.exc =
                    IF Len(RefGet(ref_data, "Currencies")) > 0
                    THEN "UnboundLocalError" ELSE "IndexError"]
            ELSE The({
                IF currency.exc # NoExc
                THEN [res EXCEPT !.exc = currency.exc]
                ELSE [res EXCEPT !.journal_entry = EntryOf(x, acc, currency)]
                : currency \in {ResolveCurrency(x, ref_data)} })
            : acc \in {BuildLoop([exc |-> NoExc, line_items |-> <<>>,
                                  subsidiaries |-> <<>>],
                                 x, 1, ref_data, journal_subsidiary)} })
        : journal_subsidiary \in {JournalSubsidiary(x, ref_data)} })

(***************************************************************************)
(* load_journal_entries: groupby(...).apply(build_lines, ...).             *)
(***************************************************************************)
\* The columns the rows are grouped by
GroupBy(df) ==
    IF "Journal Entry Id" \in df.columns
       /\ "Subsidiary" \in df.columns
    THEN <<"Journal Entry Id", "Subsidiary">>
    ELSE <<"Journal Entry Id">>

\* The key of a row
KeyOf(row, by) == [i \in 1..Len(by) |-> row[by[i]]]

\* groupby leaves out the rows with a missing value in the key (dropna)
HasKey(row, by) == \A i \in 1..Len(by) : row[by[i]] # NA

\* k1 < k2, column by column
KeyLess(k1, k2) ==
    \E i \in 1..Len(k1) :
        /\ Rank(k1[i]) < Rank(k2[i])
        /\ \A j \in 1..(i - 1) : k1[j] = k2[j]

\* The keys in S, ascending (groupby sorts the group keys)
RECURSIVE SortKeys(_)
SortKeys(S) ==
    IF S = {} THEN <<>>
    ELSE LET least == CHOOSE k \in S : \A o \in S \ {k} : KeyLess(k, o)
         IN  <<least>> \o SortKeys(S \ {least})

GroupKeys(df) ==
    LET by == GroupBy(df)
    IN  SortKeys({KeyOf(df.rows[i], by) :
                     i \in {n \in 1..Len(df.rows) :
                               HasKey(df.rows[n], by)}})

\* The frame of one group: its rows in file order
Group(df, key) ==
    [df EXCEPT !.rows =
        SelectSeq(df.rows, LAMBDA row :
            KeyOf(row, GroupBy(df)) = key)]

\* The first exception in a sequence of results, NoExc if none raised
RECURSIVE FirstExc(_)
FirstExc(results) ==
    IF Len(results) = 0 THEN NoExc
    ELSE IF Head(results).exc # NoExc THEN Head(results).exc
    ELSE FirstExc(Tail(results))

\* load_journal_entries(df, reference_data, config): [exc, journals].
\* With no group at all, apply calls build_lines once on the empty frame.
load_journal_entries(df, ref_data) ==
    LET B(x) == build_lines(x, ref_data)
        G(key) == Group(df, key)
        E(result) == result.journal_entry
    IN  The({ IF FirstExc(results) # NoExc
              THEN [exc |-> FirstExc(results), journals |-> <<>>]
              ELSE [exc |-> NoExc, journals |-> SeqMap(E, results)]
              : results \in
                  {SeqMap(B, IF Len(GroupKeys(df)) = 0
                             THEN <<[df EXCEPT !.rows = <<>>]>>
                             ELSE SeqMap(G, GroupKeys(df)))} })

(***************************************************************************)
(* JournalEntries.post and post_journal_entries.                           *)
(***************************************************************************)
\* The JournalEntryLine built from a line: customFieldList is set from
\* prepare_custom_fields (None for a line without custom fields)
\* StringCustomFieldRef / SelectCustomFieldRef of a field; field['type'] of
\* a list raises TypeError
CustomFieldRef(field) ==
    IF field.py = "list" THEN [exc |-> "TypeError", ref |-> NoneRef]
    ELSE IF field.type = "String"
    THEN [exc |-> NoExc,
          ref |-> [ref |-> "StringCustomFieldRef", scriptId |-> field.scriptId,
                   internalId |-> None, value |-> field.value]]
    ELSE [exc |-> NoExc,
          ref |-> [ref |-> "SelectCustomFieldRef", scriptId |-> field.scriptId,
                   internalId |-> None,
                   value |-> [internalId |-> field.value]]]

\* prepare_custom_fields(eod): [exc, customFieldList], None for a line with
\* no custom field
prepare_custom_fields(eod) ==
    LET R(field) == CustomFieldRef(field).ref
    IN  IF "customFieldList" \in DOMAIN eod /\ Len(eod.customFieldList) > 0
        THEN [exc |-> FirstExc(SeqMap(CustomFieldRef, eod.customFieldList)),
              customFieldList |-> SeqMap(R, eod.customFieldList)]
        ELSE [exc |-> NoExc, customFieldList |-> NoneRef]

PostedLine(eod) ==
    [customFieldList |-> prepare_custom_fields(eod).customFieldList] @@ eod

\* The exception JournalEntries.post raises before it calls the platform
PostRaises(data) == FirstExc(SeqMap(prepare_custom_fields, data.lineList))

\* The record JournalEntries.post hands to upsert
PostedRecord(data) ==
    LET Carry(k) == IF k \in DOMAIN data THEN k :> data[k] ELSE <<>>
    IN  [externalId |-> data.externalId,
         lineList |-> SeqMap(PostedLine, data.lineList)]
        @@ (IF data.currency # NoneRef
            THEN [currency |-> data.currency] ELSE <<>>)
        @@ Carry("customFieldList") @@ Carry("memo") @@ Carry("tranDate")
        @@ Carry("tranId") @@ Carry("subsidiary") @@ Carry("class")
        @@ Carry("location") @@ Carry("department")

\* The failures of a submission: [shape, entity_id, subsidiary_id], shape
\* "entity" for "Invalid entity reference key <id> for subsidiary <id>"
PostErrors ==
    {[shape |-> "other", entity_id |-> NA, subsidiary_id |-> NA]}
    \cup {[shape |-> "entity", entity_id |-> e, subsidiary_id |-> u] :
             e \in {"101", "999"}, u \in {"1", "9"}}

\* The exception post_journal_entries raises for a failed submission
PostException(e, ref_data) ==
    IF e.shape # "entity" THEN "NetSuiteRequestError"
    ELSE IF "Customer" \notin DOMAIN ref_data THEN "KeyError"
    ELSE IF "Subsidiaries" \notin DOMAIN ref_data THEN "KeyError"
    ELSE
        LET entity == SelectSeq(ref_data["Customer"], LAMBDA c :
                          c.internalId = e.entity_id)
            subsidiary == SelectSeq(ref_data["Subsidiaries"], LAMBDA r :
                              r.internalId = e.subsidiary_id)
        IN  IF Len(entity) > 0 /\ Len(subsidiary) = 0 THEN "IndexError"
            ELSE "Exception: customer cannot be used with subsidiary"

(***************************************************************************)
(* read_input_data and get_reference_data.                                 *)
(***************************************************************************)
REQUIRED_COLS ==
    <<"Transaction Date", "Journal Entry Id", "Customer Name", "Class",
      "Account Number", "Account Name", "Posting Type", "Description">>

Range(s) == {s[i] : i \in 1..Len(s)}

\* The columns a row of the model has a cell for
AllColumns ==
    Range(REQUIRED_COLS)
    \cup {"Amount", "Currency", "Subsidiary", "Customer ID", "JournalDesc",
          "Department", "Location", "SKU", "Project", "Region"}

\* read_input_data: the frame of the CSV
ReadCsv(file) ==
    [columns |-> file.columns,
     rows |-> file.rows,
     dtypes |-> [c \in file.columns |-> InferDtype(file.rows, c)]]

\* not df[c].dropna().empty
HasData(df, c) == \E i \in 1..Len(df.rows) : df.rows[i][c] # NA

\* The kinds in the order get_reference_data fetches them
FetchOrder ==
    <<"Locations", "Customer", "Classifications", "Currencies",
      "Subsidiaries", "Departments", "Items", "Accounts">>

\* The kinds whose NetSuiteRequestError is caught and logged
OptionalKinds == {"Locations", "Customer"}

\* The column that decides whether a kind is fetched
KindColumn(kind) ==
    CASE kind = "Locations" -> "Location"
      [] kind = "Customer" -> "Customer Name"
      [] kind = "Classifications" -> "Class"
      [] kind = "Currencies" -> "Currency"
      [] kind = "Subsidiaries" -> "Subsidiary"
      [] kind = "Departments" -> "Department"
      [] kind = "Items" -> "SKU"
      [] kind = "Accounts" -> "Account Number"

\* The kinds whose column is read without a test that it is there
UncheckedKinds == {"Customer", "Classifications", "Currencies", "Accounts"}

\* Reading the column of kind raises KeyError
FetchRaises(df, kind) ==
    kind \in UncheckedKinds /\ KindColumn(kind) \notin df.columns

\* get_reference_data calls get_all for kind
Wanted(df, kind) ==
    /\ ~FetchRaises(df, kind)
    /\ KindColumn(kind) \in df.columns
    /\ \/ HasData(df, KindColumn(kind))
       \/ kind = "Accounts" /\ HasData(df, "Account Name")

\* The next place, from i on, where get_reference_data calls the platform or
\* raises; Len(FetchOrder) + 1 when it returns
NextFetch(df, i) ==
    Min({j \in i..Len(FetchOrder) :
            Wanted(df, FetchOrder[j]) \/ FetchRaises(df, FetchOrder[j])}
        \cup {Len(FetchOrder) + 1})

NoError == [stage |-> "", exc |-> ""]

(***************************************************************************)
(* The run: upload_journals.                                               *)
(***************************************************************************)
\* read_input_data going on with a file that lacks a required column
ReadInputDataRegardless ==
    /\ pc = "start"
    /\ ~(Range(REQUIRED_COLS) \subseteq csv.columns)
    /\ input_data' = ReadCsv(csv)
    /\ fetch_idx' = NextFetch(ReadCsv(csv), 1)
    /\ pc' = "fetch"
    /\ UNCHANGED <<csv, reference_data, fetch_calls, snapshot, journals,
                   post_idx, submitted, error>>

\* read_input_data exits when a required column is missing
ReadInputDataExit ==
    /\ pc = "start"
    /\ ~(Range(REQUIRED_COLS) \subseteq csv.columns)
    /\ pc' = "exited"
    /\ error' = [stage |-> "read", exc |-> "SystemExit(1)"]
    /\ UNCHANGED <<csv, input_data, reference_data, fetch_idx, fetch_calls,
                   snapshot, journals, post_idx, submitted>>

ReadInputData ==
    /\ pc = "start"
    /\ Range(REQUIRED_COLS) \subseteq csv.columns
    /\ input_data' = ReadCsv(csv)
    /\ fetch_idx' = NextFetch(ReadCsv(csv), 1)
    /\ pc' = "fetch"
    /\ UNCHANGED <<csv, reference_data, fetch_calls, snapshot, journals,
                   post_idx, submitted, error>>

\* get_all of the kind at fetch_idx returns and the kind is asked for again
FetchOkAndAgain ==
    /\ pc = "fetch"
    /\ fetch_idx <= Len(FetchOrder)
    /\ LET kind == FetchOrder[fetch_idx]
       IN  /\ Wanted(input_data, kind)
           /\ reference_data' = (kind :> GetAll(kind)) @@ reference_data
           /\ fetch_calls' = [fetch_calls EXCEPT ![kind] = @ + 1]
    /\ UNCHANGED <<pc, csv, input_data, fetch_idx, snapshot, journals,
                   post_idx, submitted, error>>

\* get_all of the kind at fetch_idx returns
FetchOk ==
    /\ pc = "fetch"
    /\ fetch_idx <= Len(FetchOrder)
    /\ LET kind == FetchOrder[fetch_idx]
       IN  /\ Wanted(input_data, kind)
           /\ reference_data' = (kind :> GetAll(kind)) @@ reference_data
           /\ fetch_calls' = [fetch_calls EXCEPT ![kind] = @ + 1]
    /\ fetch_idx' = NextFetch(input_data, fetch_idx + 1)
    /\ UNCHANGED <<pc, csv, input_data, snapshot, journals, post_idx,
                   submitted, error>>

\* get_all of Locations or Customer raises NetSuiteRequestError, and the
\* exception leaves get_reference_data
FetchFailsOptionalAborts ==
    /\ pc = "fetch"
    /\ fetch_idx <= Len(FetchOrder)
    /\ LET kind == FetchOrder[fetch_idx]
       IN  /\ Wanted(input_data, kind)
           /\ kind \in OptionalKinds
           /\ fetch_calls' = [fetch_calls EXCEPT ![kind] = @ + 1]
    /\ pc' = "failed"
    /\ error' = [stage |-> "fetch", exc |-> "NetSuiteRequestError"]
    /\ UNCHANGED <<csv, input_data, reference_data, fetch_idx, snapshot,
                   journals, post_idx, submitted>>

\* get_all of Locations or Customer raises NetSuiteRequestError: a warning
FetchFailsOptional ==
    /\ pc = "fetch"
    /\ fetch_idx <= Len(FetchOrder)
    /\ LET kind == FetchOrder[fetch_idx]
       IN  /\ Wanted(input_data, kind)
           /\ kind \in OptionalKinds
           /\ fetch_calls' = [fetch_calls EXCEPT ![kind] = @ + 1]
    /\ fetch_idx' = NextFetch(input_data, fetch_idx + 1)
    /\ UNCHANGED <<pc, csv, input_data, reference_data, snapshot, journals,
                   post_idx, submitted, error>>

\* get_all of another kind raises, or of any kind another exception
FetchFails ==
    /\ pc = "fetch"
    /\ fetch_idx <= Len(FetchOrder)
    /\ LET kind == FetchOrder[fetch_idx]
       IN  /\ Wanted(input_data, kind)
           /\ fetch_calls' = [fetch_calls EXCEPT ![kind] = @ + 1]
           /\ \E exc \in IF kind \in OptionalKinds
                         THEN {"Exception"}
                         ELSE {"NetSuiteRequestError", "Exception"} :
                  error' = [stage |-> "fetch", exc |-> exc]
    /\ pc' = "failed"
    /\ UNCHANGED <<csv, input_data, reference_data, fetch_idx, snapshot,
                   journals, post_idx, submitted>>

\* input_data[column] of a column the CSV does not have
FetchKeyError ==
    /\ pc = "fetch"
    /\ fetch_idx <= Len(FetchOrder)
    /\ FetchRaises(input_data, FetchOrder[fetch_idx])
    /\ pc' = "failed"
    /\ error' = [stage |-> "fetch", exc |-> "KeyError"]
    /\ UNCHANGED <<csv, input_data, reference_data, fetch_idx, fetch_calls,
                   snapshot, journals, post_idx, submitted>>

\* get_reference_data returns
ReturnReferenceData ==
    /\ pc = "fetch"
    /\ fetch_idx > Len(FetchOrder)
    /\ snapshot' = reference_data
    /\ pc' = "build"
    /\ UNCHANGED <<csv, input_data, reference_data, fetch_idx, fetch_calls,
                   journals, post_idx, submitted, error>>

\* The entries of the groups that build_lines builds, those of the groups
\* it fails on left out
BuiltEntries(df, ref_data) ==
    LET B(key) == build_lines(Group(df, key), ref_data)
        E(result) == result.journal_entry
    IN  SeqMap(E, SelectSeq(SeqMap(B, GroupKeys(df)),
                      LAMBDA result : result.exc = NoExc))

\* load_journal_entries going on to submission with the entries that were
\* built, whatever the other groups raised
LoadJournalEntriesPartly ==
    /\ pc = "build"
    /\ pc' = "post"
    /\ journals' = BuiltEntries(input_data, reference_data)
    /\ post_idx' = 1
    /\ UNCHANGED <<csv, input_data, reference_data, fetch_idx, fetch_calls,
                   snapshot, submitted, error>>

\* upload_journals: journals = load_journal_entries(...); an exception of
\* build_lines ends the run
LoadJournalEntries ==
    /\ pc = "build"
    /\ \E loaded \in {load_journal_entries(input_data, reference_data)} :
           IF loaded.exc # NoExc
           THEN /\ pc' = "failed"
                /\ error' = [stage |-> "build", exc |-> loaded.exc]
                /\ UNCHANGED <<journals, post_idx>>
           ELSE /\ pc' = "post"
                /\ journals' = loaded.journals
                /\ post_idx' = 1
                /\ UNCHANGED error
    /\ UNCHANGED <<csv, input_data, reference_data, fetch_idx, fetch_calls,
                   snapshot, submitted>>

\* The platform accepts the entry at post_idx
PostJournalEntry ==
    /\ pc = "post"
    /\ post_idx <= Len(journals)
    /\ PostRaises(journals[post_idx]) = NoExc
    /\ submitted' = Append(submitted, PostedRecord(journals[post_idx]))
    /\ post_idx' = post_idx + 1
    /\ UNCHANGED <<pc, csv, input_data, reference_data, fetch_idx,
                   fetch_calls, snapshot, journals, error>>

\* The platform rejects the entry at post_idx and the loop goes on with the
\* next entry
PostJournalEntryFailsGoesOn ==
    /\ pc = "post"
    /\ post_idx <= Len(journals)
    /\ IF PostRaises(journals[post_idx]) # NoExc
       THEN error' = [stage |-> "post", exc |-> PostRaises(journals[post_idx])]
       ELSE \E e \in PostErrors :
                error' = [stage |-> "post",
                          exc |-> PostException(e, reference_data)]
    /\ post_idx' = post_idx + 1
    /\ UNCHANGED <<pc, csv, input_data, reference_data, fetch_idx,
                   fetch_calls, snapshot, journals, submitted>>

\* The platform rejects the entry at post_idx
PostJournalEntryFails ==
    /\ pc = "post"
    /\ post_idx <= Len(journals)
    /\ IF PostRaises(journals[post_idx]) # NoExc
       THEN error' = [stage |-> "post", exc |-> PostRaises(journals[post_idx])]
       ELSE \E e \in PostErrors :
                error' = [stage |-> "post",
                          exc |-> PostException(e, reference_data)]
    /\ pc' = "failed"
    /\ UNCHANGED <<csv, input_data, reference_data, fetch_idx, fetch_calls,
                   snapshot, journals, post_idx, submitted>>

\* Every entry is posted
Finish ==
    /\ pc = "post"
    /\ post_idx > Len(journals)
    /\ pc' = "done"
    /\ UNCHANGED <<csv, input_data, reference_data, fetch_idx, fetch_calls,
                   snapshot, journals, post_idx, submitted, error>>

Next ==
    \/ ReadInputDataExit
    \/ ReadInputData
    \/ FetchOk
    \/ FetchFailsOptional
    \/ FetchFails
    \/ FetchKeyError
    \/ ReturnReferenceData
    \/ LoadJournalEntries
    \/ PostJournalEntry
    \/ PostJournalEntryFails
    \/ Finish


(***************************************************************************)
(* Inputs.  An input family is [columns, je, sub, posting, amount, acct,    *)
(* cust, cur, class, dept, loc, sku, project, region]: the columns of the   *)
(* CSV and, per column, the cells its rows draw from (acct: <<Account       *)
(* Number, Account Name>>, cust: <<Customer ID, Customer Name>>).  The      *)
(* Description of the i-th row is RowMemo[i], so a line names the row it    *)
(* was built from.                                                          *)
(***************************************************************************)
RowMemo == <<"m1", "m2", "m3", "m4">>

RowOf(columns, cell) ==
    [c \in AllColumns |->
        IF c \notin columns THEN NA
        ELSE CASE c = "Transaction Date" -> "2024-01-31"
               [] c = "Journal Entry Id" -> cell.je
               [] c = "Customer Name" -> cell.cust[2]
               [] c = "Class" -> cell.class
               [] c = "Department" -> cell.dept
               [] c = "Location" -> cell.loc
               [] c = "Account Number" -> cell.acct[1]
               [] c = "Account Name" -> cell.acct[2]
               [] c = "Posting Type" -> cell.posting
               [] c = "Description" -> NA
               [] c = "Amount" -> cell.amount
               [] c = "Currency" -> cell.cur
               [] c = "Subsidiary" -> cell.sub
               [] c = "Customer ID" -> cell.cust[1]
               [] c = "JournalDesc" -> "desc"
               [] c = "SKU" -> cell.sku
               [] c = "Project" -> cell.project
               [] c = "Region" -> cell.region]

RowsOf(f) ==
    {RowOf(f.columns, cell) :
        cell \in [je : f.je, sub : f.sub, posting : f.posting,
                  amount : f.amount, acct : f.acct, cust : f.cust,
                  cur : f.cur, class : f.class, dept : f.dept, loc : f.loc,
                  sku : f.sku, project : f.project, region : f.region]}

\* The files of a family: up to MaxRows rows, the i-th described RowMemo[i]
FilesOf(f) ==
    LET Described(rows) ==
            [i \in 1..Len(rows) |->
                IF "Description" \in f.columns
                THEN [rows[i] EXCEPT !["Description"] = RowMemo[i]]
                ELSE rows[i]]
    IN  {[columns |-> f.columns, rows |-> Described(rows)] :
            rows \in UNION {[1..n -> RowsOf(f)] : n \in 0..MaxRows}}

BaseColumns == Range(REQUIRED_COLS) \cup {"Amount", "Currency"}

Family(columns) ==
    [columns |-> columns, je |-> {"JE1"}, sub |-> {NA}, posting |-> {"debit"},
     amount |-> {"100"}, acct |-> {<<"4000", NA>>}, cust |-> {<<NA, NA>>},
     cur |-> {NA}, class |-> {NA}, dept |-> {NA}, loc |-> {NA},
     sku |-> {NA}, project |-> {NA}, region |-> {NA}]

\* Rows that differ in Posting Type and Amount, on an account with a
\* subsidiary and on one without
LineFamily ==
    [Family(BaseColumns) EXCEPT
        !.posting = {"debit", "Credit", "Other"},
        !.amount = {NA, "-150.555"},
        !.acct = {<<"4000", NA>>, <<"6000", NA>>}]

\* Several entries whose accounts are given by number: accounts of one
\* subsidiary and of another, and a number no account has
NumberFamily ==
    [Family(BaseColumns) EXCEPT
        !.je = {"JE1", "JE2"},
        !.posting = {"debit", "credit"},
        !.acct = {<<"4000", NA>>, <<"5000", NA>>, <<"9999", NA>>}]

\* Accounts given by name, one of them unknown, and customers by name and
\* by id
NameFamily ==
    [Family(BaseColumns \cup {"Customer ID"}) EXCEPT
        !.je = {"JE1", "JE2"},
        !.acct = {<<NA, "Cash">>, <<NA, "Bogus">>},
        !.cust = {<<NA, NA>>, <<NA, "Acme">>, <<"101", "Acme">>}]

\* A Subsidiary column, by id and by name and left blank, with customers of
\* that subsidiary and of another, by name and by entityId
SubsidiaryFamily ==
    [Family(BaseColumns \cup {"Subsidiary", "Customer ID"}) EXCEPT
        !.sub = {NA, "1", "HQ"},
        !.cust = {<<NA, NA>>, <<NA, "Acme">>, <<NA, "Beta">>,
                  <<"ACME", "Acme">>, <<"BETA", "Beta">>}]

\* A Subsidiary column on debit and credit rows
SidesFamily ==
    [Family(BaseColumns \cup {"Subsidiary"}) EXCEPT
        !.sub = {NA, "1", "HQ", "West"},
        !.posting = {"debit", "credit"}]

\* Customers by a name nobody goes by, by a company name that an inactive
\* and an active customer share, and by the entityId of each of the two
CustomerFamily ==
    [Family(BaseColumns \cup {"Customer ID"}) EXCEPT
        !.cust = {<<NA, NA>>, <<NA, "Nobody">>, <<NA, "Gamma">>,
                  <<"NEWCO", "Gamma">>, <<"OLDCO", "Gamma">>}]

\* An Account Number that two accounts have, with no Account Name, with the
\* name of one of the two, of another account and of none
AccountFamily ==
    [Family(BaseColumns) EXCEPT
        !.acct = {<<"7000", NA>>, <<"7000", "Rates">>, <<"7000", "Sales">>,
                  <<"7000", "Bogus">>}]

\* A Class by its own name, which another class has in another letter case,
\* by the name of a class under a parent, and by parent and name
ClassFamily ==
    [Family(BaseColumns) EXCEPT
        !.class = {NA, "Retail", "Online", "Retail : Online"}]

\* A Department under a parent, by its name and by parent and name, and a
\* Location, one of them the one without an internalId
DepartmentFamily ==
    [Family(BaseColumns \cup {"Department", "Location"}) EXCEPT
        !.dept = {NA, "Field", "Ops : Field"},
        !.loc = {NA, "Depot", "Yard"}]

\* A SKU that is an item and one that is none, and the columns of the two
\* configured custom fields, with a value and without
CustomFieldFamily ==
    [Family(BaseColumns \cup {"SKU", "Project", "Region"}) EXCEPT
        !.sku = {NA, "SKU1", "SKU9"},
        !.project = {NA, "P1"},
        !.region = {NA, "R1"}]

\* A Currency on some rows, one of them unknown, rows with no account, and
\* a JournalDesc for the memo of the entry
CurrencyFamily ==
    [Family(BaseColumns \cup {"JournalDesc"}) EXCEPT
        !.je = {"JE1", "JE2"},
        !.acct = {<<"4000", NA>>, <<NA, NA>>},
        !.cur = {NA, "USD", "EUR"}]

\* Files that lack a required column, or the Currency column
MissingColumnFamilies ==
    {[Family(BaseColumns \ {c}) EXCEPT !.je = {"JE1", "JE2"}] :
        c \in Range(REQUIRED_COLS) \cup {"Currency"}}

RunFamilies ==
    {LineFamily, NumberFamily, NameFamily, SubsidiaryFamily, SidesFamily,
     CustomerFamily, AccountFamily, ClassFamily, DepartmentFamily,
     CustomFieldFamily, CurrencyFamily}
    \cup MissingColumnFamilies

InitOf(families) ==
    /\ csv \in UNION {FilesOf(f) : f \in families}
    /\ pc = "start"
    /\ input_data = [columns |-> {}, rows |-> <<>>, dtypes |-> <<>>]
    /\ reference_data = <<>>
    /\ fetch_idx = 1
    /\ fetch_calls = [k \in Range(FetchOrder) |-> 0]
    /\ snapshot = <<>>
    /\ journals = <<>>
    /\ post_idx = 1
    /\ submitted = <<>>
    /\ error = NoError

Init == InitOf(RunFamilies)

Spec == Init /\ [][Next]_vars


(***************************************************************************)
(* Properties.                                                             *)
(***************************************************************************)
\* load_journal_entries has returned
Built == pc \in {"post", "done"} \/ error.stage = "post"

\* The frame build_lines got for the i-th entry
GroupOf(i) == Group(input_data, GroupKeys(input_data)[i])

\* The rows that are in a group
GroupedRows ==
    {input_data.rows[n] : n \in {m \in 1..Len(input_data.rows) :
        HasKey(input_data.rows[m], GroupBy(input_data))}}

\* The Descriptions of the lines of an entry: the rows they were built from
LineMemos(e) == [n \in 1..Len(e.lineList) |-> e.lineList[n].memo]

\* The Descriptions of the rows of a sequence of rows
RowMemos(rows) == [n \in 1..Len(rows) |-> rows[n]["Description"]]

\* The row a line was built from
RowOfLine(line) ==
    CHOOSE row \in Range(input_data.rows) : row["Description"] = line.memo

\* The lines of all entries
AllLines ==
    UNION {Range(journals[i].lineList) : i \in 1..Len(journals)}

\* C1: every line of a built entry has exactly one of the keys credit and
\* debit, whatever the row's Posting Type and Amount; with no Amount the
\* value is 0.
ExactlyOneOfCreditDebit ==
    \A line \in AllLines :
        /\ ("credit" \in DOMAIN line) # ("debit" \in DOMAIN line)
        /\ RowOfLine(line)["Amount"] = NA =>
               \A k \in {"credit", "debit"} \cap DOMAIN line : line[k] = 0

\* A line is built from a row with no Amount: its value is 0
AbsentAmountLine ==
    \E line \in AllLines :
        /\ RowOfLine(line)["Amount"] = NA
        /\ "debit" \in DOMAIN line
        /\ line.debit = 0

\* The subsidiary build_lines resolves for a row of the frame x
RowSubsidiary(x, row) ==
    LET account == ResolveAccount(x, row, reference_data)
    IN  IF account.exc # NoExc \/ account.skip
        THEN [exc |-> NoExc, set |-> FALSE, subsidiary |-> NoneRef]
        ELSE ResolveSubsidiary(x, row, account.acct_data[1], reference_data)

\* C2: the subsidiary and the toSubsidiary of a built entry are never the
\* same subsidiary (the same internalId): when both sides resolve to one
\* subsidiary the entry has no toSubsidiary.
SubsidiaryNeverToSubsidiary ==
    \A i \in 1..Len(journals) :
        {"subsidiary", "toSubsidiary"} \subseteq DOMAIN journals[i] =>
            journals[i].subsidiary.internalId
                # journals[i].toSubsidiary.internalId

\* An entry is built from a debit row and a credit row of two accounts that
\* resolve to the same subsidiary, and has no toSubsidiary
SameSubsidiaryBothSides ==
    /\ Built
    /\ \E i \in 1..Len(journals) :
           /\ "subsidiary" \in DOMAIN journals[i]
           /\ "toSubsidiary" \notin DOMAIN journals[i]
           /\ \E r1, r2 \in Range(GroupOf(i).rows) :
                  /\ LowerIs(r1["Posting Type"], "debit")
                  /\ LowerIs(r2["Posting Type"], "credit")
                  /\ RowSubsidiary(GroupOf(i), r1).set
                  /\ RowSubsidiary(GroupOf(i), r2).set
                  /\ RowSubsidiary(GroupOf(i), r1).subsidiary.internalId
                       = RowSubsidiary(GroupOf(i), r2).subsidiary.internalId

\* C3: no two entries that load_journal_entries returns have the same
\* externalId, also for a file with a Subsidiary column.
UniqueExternalIds ==
    \A i, j \in 1..Len(journals) :
        i # j => journals[i].externalId # journals[j].externalId

\* The keys of the rows of the file: Journal Entry Id, and Subsidiary when
\* the file has the column
RowKeys ==
    {KeyOf(input_data.rows[n], GroupBy(input_data)) :
        n \in 1..Len(input_data.rows)}

\* The Descriptions of the rows of key k that are not skipped, in file order
ExpectedMemos(k) ==
    RowMemos(SelectSeq(input_data.rows, LAMBDA row :
        /\ KeyOf(row, GroupBy(input_data)) = k
        /\ ~ResolveAccount(input_data, row, reference_data).skip))

\* C4: for every group of rows of the same Journal Entry Id (and the same
\* Subsidiary when the file has the column) there is exactly one entry, and
\* its lines are those of the group's rows that are not skipped, in file
\* order.
OneEntryPerGroup ==
    Built =>
        \A k \in RowKeys :
            Cardinality({i \in 1..Len(journals) :
                /\ journals[i].externalId = k[1]
                /\ LineMemos(journals[i]) = ExpectedMemos(k)}) = 1

\* C5: the entries are submitted one at a time in the order
\* load_journal_entries returned them; once a submission fails the run has
\* stopped with that error: nothing is submitted after it and what was
\* submitted before it stays submitted.
SubmitInOrderStopAtFailure ==
    [][/\ \/ submitted' = submitted
          \/ /\ error = NoError
             /\ Len(submitted) < Len(journals)
             /\ submitted' = Append(submitted,
                                 PostedRecord(journals[Len(submitted) + 1]))
       /\ error.stage = "post" => UNCHANGED vars]_vars

\* A submission has failed after another was made and before the last
FailedAfterFirstSubmission ==
    /\ error.stage = "post"
    /\ Len(submitted) >= 1
    /\ Len(submitted) < Len(journals)

\* The groups of the file
GroupFrames ==
    {Group(input_data, GroupKeys(input_data)[i]) :
        i \in 1..Len(GroupKeys(input_data))}

\* C6: when build_lines raises for a group, no entry of the run is
\* submitted, those of the groups built without error included: an entry is
\* submitted only after every group was built.
NoSubmissionUnlessAllBuilt ==
    /\ error.stage = "build" => submitted = <<>> /\ pc = "failed"
    /\ submitted # <<>> =>
           \A x \in GroupFrames : build_lines(x, reference_data).exc = NoExc

\* The run has failed in build_lines for one group, and another group builds
\* without error
FailedWithAnotherGroupBuilt ==
    /\ error.stage = "build"
    /\ \E x \in GroupFrames : build_lines(x, reference_data).exc = NoExc
    /\ \E x \in GroupFrames : build_lines(x, reference_data).exc # NoExc

\* C7: a file that lacks a required column makes the process exit with a
\* non-zero status before any reference data is fetched and before anything
\* is submitted.
MissingColumnExitsFirst ==
    ~(Range(REQUIRED_COLS) \subseteq csv.columns) =>
        /\ pc \in {"start", "exited"}
        /\ pc = "exited" => error = [stage |-> "read", exc |-> "SystemExit(1)"]
        /\ \A kind \in Range(FetchOrder) : fetch_calls[kind] = 0
        /\ reference_data = <<>>
        /\ submitted = <<>>

\* The process has exited on a file that lacks a required column
ExitedOnMissingColumn ==
    /\ pc = "exited"
    /\ ~(Range(REQUIRED_COLS) \subseteq csv.columns)
    /\ Len(csv.rows) > 0

\* get_reference_data has returned
Fetched == pc \in {"build", "post", "done"} \/ error.stage \in {"build", "post"}

\* C8: every kind of reference data is fetched at most once; every fetch is
\* over before the first row is resolved; and nothing after that changes
\* the reference data.
FetchedOnceThenFrozen ==
    /\ \A kind \in Range(FetchOrder) : fetch_calls[kind] <= 1
    /\ Fetched =>
           /\ fetch_idx > Len(FetchOrder)
           /\ reference_data = snapshot
           /\ \A kind \in DOMAIN reference_data : fetch_calls[kind] = 1
    /\ ~Fetched => journals = <<>> /\ submitted = <<>>

\* A run is over whose entries were built and submitted from several kinds
\* of reference data
DoneWithReferenceData ==
    /\ pc = "done"
    /\ Cardinality(DOMAIN reference_data) >= 2
    /\ submitted # <<>>

\* The customer record an entity refers to
CustomerOf(entity) ==
    CHOOSE c \in Range(reference_data["Customer"]) :
        c.internalId = entity.internalId

\* The lines of an entry that carry a customer
EntityLines(e) == {line \in Range(e.lineList) : "entity" \in DOMAIN line}

\* C9: when the subsidiary of an entry is resolved to S, from the rows'
\* Subsidiary or from the account's subsidiary list, no line of the entry
\* carries a customer of another subsidiary than S.
EntityOfEntrySubsidiary ==
    \A i \in 1..Len(journals) :
        "subsidiary" \in DOMAIN journals[i] =>
            \A line \in EntityLines(journals[i]) :
                CustomerOf(line.entity).subsidiary.internalId
                    = journals[i].subsidiary.internalId

\* C9, amended: when the journal-level subsidiary of a group (the Subsidiary
\* of its first row, with the Subsidiaries fetched) is resolved to S, no
\* line of the entry carries a customer of another subsidiary than S, found
\* by Customer ID or by Customer Name.
EntityOfJournalSubsidiary ==
    Built =>
        \A i \in 1..Len(journals) :
            JournalSubsidiary(GroupOf(i), reference_data).set =>
                \A line \in EntityLines(journals[i]) :
                    CustomerOf(line.entity).subsidiary.internalId
                        = JournalSubsidiary(GroupOf(i), reference_data).internalId

\* An entry of a group with a journal-level subsidiary carries a customer
\* found by Customer ID and a customer found by Customer Name
ScopedCustomersOnBothPaths ==
    /\ Built
    /\ \E i \in 1..Len(journals) :
           /\ JournalSubsidiary(GroupOf(i), reference_data).set
           /\ \E l1, l2 \in EntityLines(journals[i]) :
                  /\ RowOfLine(l1)["Customer ID"] # NA
                  /\ Len(CustomersById(reference_data["Customer"],
                             RowGet(input_data, RowOfLine(l1), "Customer ID"),
                             RowGet(input_data, RowOfLine(l1), "Customer Name"),
                             JournalSubsidiary(GroupOf(i), reference_data))) > 0
                  /\ RowOfLine(l2)["Customer ID"] = NA

\* The row gives an Account Number that no reference account has
UnknownAccountNumber(row) ==
    /\ row["Account Number"] # NA
    /\ \A a \in Range(RefGet(reference_data, "Accounts")) :
           a.acctNumber # row["Account Number"]

\* The row gives no Account Number and an Account Name that no reference
\* account has
UnknownAccountNameOnly(row) ==
    /\ row["Account Number"] = NA
    /\ row["Account Name"] # NA
    /\ \A a \in Range(RefGet(reference_data, "Accounts")) :
           a.acctName # row["Account Name"]

\* C10: a row with an Account Number that matches no account aborts the
\* build with an error; a row with only an Account Name that matches no
\* account is left out and the other rows of its group still make the
\* lines of the entry.
NumberAbortsNameSkips ==
    /\ (Fetched /\ pc # "build" /\ \E row \in GroupedRows :
            UnknownAccountNumber(row))
           => error.stage = "build"
    /\ Built =>
           \A i \in 1..Len(journals) :
               LineMemos(journals[i]) =
                   RowMemos(SelectSeq(GroupOf(i).rows, LAMBDA row :
                       ~UnknownAccountNameOnly(row)))

\* An entry is built from a group with a row that is left out and a row
\* that makes a line
SkippedRowAmongLines ==
    /\ Built
    /\ \E i \in 1..Len(journals) :
           /\ \E row \in Range(GroupOf(i).rows) : UnknownAccountNameOnly(row)
           /\ Len(journals[i].lineList) >= 1

(***************************************************************************)
(* C11.  A row that names a customer, by Customer Name or by Customer ID,  *)
(* never yields a line without an entity: either the line carries the      *)
(* customer or the run fails.                                              *)
(***************************************************************************)
\* The row names a customer
NamesCustomer(row) ==
    row["Customer Name"] # NA \/ row["Customer ID"] # NA

SuppliedCustomerIsOnLine ==
    Built =>
        \A line \in AllLines :
            NamesCustomer(RowOfLine(line)) => "entity" \in DOMAIN line

(***************************************************************************)
(* C12.  A group whose last row gives a Currency that is the symbol of no  *)
(* currency of the platform makes the build fail: no entry of the run is   *)
(* built, and no built entry lacks its currency for such a group.          *)
(***************************************************************************)
\* The Currency cell of the last row of a group
LastCurrency(x) == x.rows[Len(x.rows)]["Currency"]

\* The last row of x gives a Currency that no fetched currency has
UnresolvedCurrency(x) ==
    /\ Len(x.rows) > 0
    /\ LastCurrency(x) # NA
    /\ \A c \in Range(RefGet(reference_data, "Currencies")) :
           c.symbol # LastCurrency(x)

\* load_journal_entries has returned or raised
BuildOver == Built \/ error.stage = "build"

UnknownCurrencyFails ==
    /\ BuildOver /\ (\E x \in GroupFrames : UnresolvedCurrency(x)) =>
           /\ error.stage = "build"
           /\ pc = "failed"
           /\ journals = <<>>
    /\ Built =>
           \A i \in 1..Len(journals) :
               journals[i].currency = NoneRef =>
                   ~UnresolvedCurrency(GroupOf(i))

\* The build has failed on the unknown currency of a file whose rows all
\* name a known account
FailedOnUnknownCurrency ==
    /\ error = [stage |-> "build", exc |-> "Exception"]
    /\ \A row \in Range(input_data.rows) : row["Account Number"] = "4000"
    /\ \E x \in GroupFrames :
           /\ UnresolvedCurrency(x)
           /\ LastCurrency(x) = "EUR"

(***************************************************************************)
(* C13.  A row whose Posting Type is neither credit nor debit, whatever    *)
(* its letter case, makes the build fail, whether or not a subsidiary was  *)
(* resolved for the row: no line of a built entry comes from such a row.   *)
(***************************************************************************)
\* row["Posting Type"].lower() is neither "credit" nor "debit"
InvalidPostingType(row) ==
    /\ ~LowerIs(row["Posting Type"], "credit")
    /\ ~LowerIs(row["Posting Type"], "debit")

InvalidPostingTypeFails ==
    /\ BuildOver /\ (\E row \in GroupedRows : InvalidPostingType(row)) =>
           error.stage = "build" /\ journals = <<>>
    /\ Built =>
           \A line \in AllLines : ~InvalidPostingType(RowOfLine(line))

(***************************************************************************)
(* C16.  A file that has every required column and no Currency column is   *)
(* processed: reading a column it lacks never ends the run, and its        *)
(* entries are built without a currency.                                   *)
(***************************************************************************)
\* The file has the required columns and no Currency column
NoCurrencyColumn ==
    /\ Range(REQUIRED_COLS) \subseteq csv.columns
    /\ "Currency" \notin csv.columns

CurrencyColumnIsOptional ==
    NoCurrencyColumn =>
        /\ error.exc # "KeyError"
        /\ Built => \A i \in 1..Len(journals) : journals[i].currency = NoneRef

(***************************************************************************)
(* C15.  Failures of get_all.  The kind whose failure ended the run is the *)
(* one at fetch_idx; an optional kind was tolerated when it was asked for, *)
(* is not among the reference data and did not end the run.                *)
(***************************************************************************)
\* The kind whose get_all raised an exception that left get_reference_data
AbortingKind ==
    IF error.stage = "fetch" /\ error.exc # "KeyError"
    THEN {FetchOrder[fetch_idx]} ELSE {}

\* The optional kinds whose failure was logged as a warning
ToleratedKinds ==
    {k \in OptionalKinds :
        fetch_calls[k] > 0 /\ k \notin DOMAIN reference_data} \ AbortingKind

\* get_reference_data has returned
ReferenceDataReturned == BuildOver \/ pc = "build"

\* A failure of another kind ends the run before anything is built, and when
\* get_reference_data returns, every kind it asked for is there or tolerated
OthersAbortAndAllAsked ==
    /\ AbortingKind # {} =>
           pc = "failed" /\ journals = <<>> /\ submitted = <<>>
    /\ \A k \in Range(FetchOrder) \ OptionalKinds :
           fetch_calls[k] > 0 /\ k \notin DOMAIN reference_data =>
               k \in AbortingKind
    /\ ReferenceDataReturned =>
           \A k \in Range(FetchOrder) :
               Wanted(input_data, k) =>
                   k \in DOMAIN reference_data \cup ToleratedKinds

\* C15 as stated: no failure of the fetch of Locations or Customer ends the
\* run; a failure of the fetch of another kind ends it before any entry is
\* built, and every other kind asked for is fetched.
OptionalFetchFailureTolerated ==
    /\ AbortingKind \cap OptionalKinds = {}
    /\ OthersAbortAndAllAsked

\* C15, amended: a NetSuiteRequestError of the fetch of Locations or Customer
\* never ends the run (another exception of it does); a failure of the fetch
\* of another kind ends it before any entry is built, and every other kind
\* asked for is fetched.
RequestErrorOfOptionalKindTolerated ==
    /\ AbortingKind \cap OptionalKinds # {} =>
           error.exc # "NetSuiteRequestError"
    /\ OthersAbortAndAllAsked

\* The fetch of Customer failed and was tolerated, Accounts was fetched
\* after it, and the entries were built and submitted
SubmittedWithoutCustomers ==
    /\ "Customer" \in ToleratedKinds
    /\ "Accounts" \in DOMAIN reference_data
    /\ pc = "done"
    /\ Len(submitted) >= 1

(***************************************************************************)
(* C14.  The customer a line carries as entity is never one that is        *)
(* flagged inactive, whether it was found by Customer ID or by Customer    *)
(* Name.                                                                   *)
(***************************************************************************)
EntityNeverInactive ==
    Built =>
        \A line \in AllLines :
            "entity" \in DOMAIN line => ~CustomerOf(line.entity).isInactive

(***************************************************************************)
(* C19.  A line of a row whose Account Number several accounts have is     *)
(* built only when the row gives an Account Name and the name singles out  *)
(* one account: the first of the accounts of that number is never taken    *)
(* for want of a name.                                                     *)
(***************************************************************************)
\* The accounts that have the Account Number of the row
AccountsOfNumber(row) ==
    SelectSeq(RefGet(reference_data, "Accounts"), LAMBDA a :
        a.acctNumber = row["Account Number"])

DuplicateNumberNeverFirstPick ==
    Built =>
        \A line \in AllLines :
            LET row == RowOfLine(line)
            IN  Len(AccountsOfNumber(row)) > 1 =>
                    /\ row["Account Name"] # NA
                    /\ Len(AccountsByName(reference_data["Accounts"],
                               row["Account Name"]).acct_data) = 1

(***************************************************************************)
(* C17.  When the Class, the Department or, with no Customer ID, the       *)
(* Customer Name of a row is exactly one of the names it is matched        *)
(* against, the best match is that name, whatever the number of matches    *)
(* asked for, and the record the line carries goes by that name, not by a  *)
(* name that is only similar to it or differs from it in letter case.      *)
(***************************************************************************)
\* The record of kind that the reference ref points at
RecordOf(kind, ref) ==
    CHOOSE r \in Range(reference_data[kind]) : r.internalId = ref.internalId

\* The names the record r of a hierarchical kind is matched by
NamesOf(r) ==
    {r.name} \cup (IF r.parent # None THEN {QualifiedName(r, "name")} ELSE {})

\* The line of a row whose cell for column is one of the hierarchical names
\* of kind carries under key a record of that name
ExactNameSelected(line, column, kind, key) ==
    LET raw == RowOfLine(line)[column]
        pool == HierarchicalNames(RefGet(reference_data, kind), "name")
    IN  raw # NA /\ InSeq(raw, pool) =>
            /\ \A n \in {1, 2, DefaultN} :
                   DictMax(get_close_matches(raw, pool, n, DefaultCutoff)) = raw
            /\ key \in DOMAIN line
            /\ raw \in NamesOf(RecordOf(kind, line[key]))

ExactNameAlwaysSelected ==
    Built =>
        \A line \in AllLines :
            /\ ExactNameSelected(line, "Class", "Classifications", "class")
            /\ ExactNameSelected(line, "Department", "Departments",
                   "department")
            /\ LET row == RowOfLine(line)
               IN  /\ row["Customer ID"] = NA
                   /\ InSeq(row["Customer Name"],
                          ActiveCustomerNames(RefGet(reference_data, "Customer")))
                   => /\ "entity" \in DOMAIN line
                      /\ InSeq(row["Customer Name"],
                             AliasesOf(CustomerOf(line.entity)))

(***************************************************************************)
(* C20.  A Class, a Department or a Subsidiary given by the plain name of  *)
(* a record that has a parent resolves to that record: the line carries    *)
(* the class or department of that name, and an entry whose rows all give  *)
(* that Subsidiary has it on every side it has.                            *)
(***************************************************************************)
\* The records of kind that have a parent and the plain name raw
LeavesNamed(kind, raw) ==
    {r \in Range(RefGet(reference_data, kind)) :
        r.parent # None /\ r.name = raw}

\* The line of a row whose cell for column is the plain name of a record
\* under a parent carries that record under key
LeafNameResolves(line, column, kind, key) ==
    LET raw == RowOfLine(line)[column]
    IN  raw # NA /\ LeavesNamed(kind, raw) # {} =>
            /\ key \in DOMAIN line
            /\ RecordOf(kind, line[key]) \in LeavesNamed(kind, raw)

\* The rows of the i-th group all give raw as Subsidiary
AllRowsOfSubsidiary(i, raw) ==
    \A row \in Range(GroupOf(i).rows) : row["Subsidiary"] = raw

\* An entry whose rows all give the plain name of the subsidiary s, one with
\* a parent, has s on every side it has
ChildSubsidiaryResolves(i, s) ==
    s.parent # None /\ AllRowsOfSubsidiary(i, s.name) =>
        /\ {"subsidiary", "toSubsidiary"} \cap DOMAIN journals[i] # {}
        /\ \A k \in {"subsidiary", "toSubsidiary"} \cap DOMAIN journals[i] :
               journals[i][k].internalId = s.internalId

PlainNameOfChildResolves ==
    Built =>
        /\ \A line \in AllLines :
               /\ LeafNameResolves(line, "Class", "Classifications", "class")
               /\ LeafNameResolves(line, "Department", "Departments",
                      "department")
        /\ \A i \in 1..Len(journals) :
               \A s \in Range(RefGet(reference_data, "Subsidiaries")) :
                   ChildSubsidiaryResolves(i, s)

(***************************************************************************)
(* C18.  Every reference that a line (account, class, department,          *)
(* location, entity) or an entry (currency, subsidiary, toSubsidiary)      *)
(* carries has an internalId: a record without one is left out.            *)
(***************************************************************************)
LineReferenceKeys == {"account", "class", "department", "location", "entity"}

EntryReferenceKeys == {"subsidiary", "toSubsidiary"}

AttachedOnlyWithInternalId ==
    Built =>
        /\ \A line \in AllLines :
               \A k \in LineReferenceKeys \cap DOMAIN line :
                   line[k].internalId # None
        /\ \A i \in 1..Len(journals) :
               /\ \A k \in EntryReferenceKeys \cap DOMAIN journals[i] :
                      journals[i][k].internalId # None
               /\ journals[i].currency # NoneRef =>
                      journals[i].currency.internalId # None

(***************************************************************************)
(* C24.  The account of a line built from a row that gives an Account     *)
(* Number is an account of that number, also when the number is shared    *)
(* and the Account Name decides among the accounts.                       *)
(***************************************************************************)
AccountOfRowNumber ==
    Built =>
        \A line \in AllLines :
            RowOfLine(line)["Account Number"] # NA =>
                RecordOf("Accounts", line.account).acctNumber
                    = RowOfLine(line)["Account Number"]

(***************************************************************************)
(* C25.  No row is left out by the grouping: every row of the file is in   *)
(* a group that build_lines gets, rows with no Subsidiary in a file with a *)
(* Subsidiary column included, and once the entries are built every row    *)
(* whose account resolves is the row of exactly one line of one entry.     *)
(***************************************************************************)
\* The places <<i, n>> of the lines built from row
LinesOfRow(row) ==
    {p \in UNION {{<<i, n>> : n \in 1..Len(journals[i].lineList)} :
                     i \in 1..Len(journals)} :
        journals[p[1]].lineList[p[2]].memo = row["Description"]}

EveryRowInOneGroup ==
    /\ pc \notin {"start", "exited"} =>
           \A row \in Range(input_data.rows) : row \in GroupedRows
    /\ Built =>
           \A row \in Range(input_data.rows) :
               ~ResolveAccount(input_data, row, reference_data).skip =>
                   Cardinality(LinesOfRow(row)) = 1

(***************************************************************************)
(* C22.  A failed submission ends the run with the error of the platform,  *)
(* or, for a message "Invalid entity reference key <id> for subsidiary     *)
(* <id>", with the descriptive customer and subsidiary error: never with   *)
(* another error, such as a failed lookup in the reference data.           *)
(***************************************************************************)
DescriptiveOrOriginalError ==
    error.stage = "post" =>
        error.exc \in {"NetSuiteRequestError", "TypeError",
                       "Exception: customer cannot be used with subsidiary"}

(***************************************************************************)
(* C26.  No entry without lines is submitted: a group whose rows are all   *)
(* skipped, their Account Name being that of no account, has no entry      *)
(* among those submitted.                                                  *)
(***************************************************************************)
NoEmptyEntrySubmitted ==
    \A i \in 1..Len(submitted) : Len(submitted[i].lineList) > 0

(***************************************************************************)
(* C27.  Every header field that build_lines set on an entry (externalId,  *)
(* tranDate, memo, subsidiary, toSubsidiary, and currency unless None) is  *)
(* in the record submitted for it, with the same value.                    *)
(***************************************************************************)
HeaderKeys == {"externalId", "tranDate", "memo", "subsidiary", "toSubsidiary"}

\* The header fields of the entry built are those of the record submitted
HeaderCarried(built, posted) ==
    /\ \A k \in HeaderKeys \cap DOMAIN built :
           k \in DOMAIN posted /\ posted[k] = built[k]
    /\ built.currency # NoneRef =>
           "currency" \in DOMAIN posted /\ posted.currency = built.currency

HeaderFieldsSubmitted ==
    \A i \in 1..Len(submitted) : HeaderCarried(journals[i], submitted[i])

\* The same, toSubsidiary left aside
HeaderFieldsButToSubsidiary ==
    \A i \in 1..Len(submitted) :
        HeaderCarried([k \in DOMAIN journals[i] \ {"toSubsidiary"} |->
                          journals[i][k]], submitted[i])

(***************************************************************************)
(* C21.  The subsidiary of a line is the Subsidiary of its row when the    *)
(* row has one (digits are the internalId as they are, a name is that of   *)
(* the subsidiary record) and else the first of the subsidiaryList of the  *)
(* line's account.  An entry whose debit lines all have subsidiary A and   *)
(* whose credit lines all have subsidiary B, A other than B, has           *)
(* subsidiary A and toSubsidiary B; and the subsidiary an entry has on a   *)
(* side is that of one of its lines of that side.                          *)
(***************************************************************************)
\* The internalId of the subsidiary of a line, as a set: empty when the
\* line has none
SubsidiaryIdOf(line) ==
    LET raw == RowOfLine(line)["Subsidiary"]
        list == RecordOf("Accounts", line.account).subsidiaryList
    IN  IF raw # NA
        THEN IF IsDigit(raw) THEN {raw}
             ELSE {r.internalId :
                      r \in {u \in Range(RefGet(reference_data, "Subsidiaries")) :
                                u.name = raw}}
        ELSE IF Len(list) > 0 THEN {list[1].internalId} ELSE {}

\* The subsidiaries of the lines of the i-th entry that have the key posting
SideIds(i, posting) ==
    UNION {SubsidiaryIdOf(line) :
              line \in {l \in Range(journals[i].lineList) :
                           posting \in DOMAIN l}}

DebitToSubsidiaryCreditToOther ==
    Built =>
        \A i \in 1..Len(journals) :
            /\ \A A \in SideIds(i, "debit"), B \in SideIds(i, "credit") :
                   /\ SideIds(i, "debit") = {A}
                   /\ SideIds(i, "credit") = {B}
                   /\ A # B
                   => /\ {"subsidiary", "toSubsidiary"}
                             \subseteq DOMAIN journals[i]
                      /\ journals[i].subsidiary.internalId = A
                      /\ journals[i].toSubsidiary.internalId = B
            /\ "subsidiary" \in DOMAIN journals[i] =>
                   journals[i].subsidiary.internalId \in SideIds(i, "debit")
            /\ "toSubsidiary" \in DOMAIN journals[i] =>
                   journals[i].toSubsidiary.internalId \in SideIds(i, "credit")

\* An entry is built from a debit line of one subsidiary and a credit line of
\* another
TwoSubsidiariesOnTwoSides ==
    /\ Built
    /\ \E i \in 1..Len(journals) :
           /\ Cardinality(SideIds(i, "debit")) = 1
           /\ Cardinality(SideIds(i, "credit")) = 1
           /\ SideIds(i, "debit") # SideIds(i, "credit")
           /\ {"subsidiary", "toSubsidiary"} \subseteq DOMAIN journals[i]

(***************************************************************************)
(* C23.  The customFieldList of a line holds one typed field assignment    *)
(* (type, scriptId, value) for the SKU of the row and for every configured *)
(* custom field the row has a value for, the SKU first and the configured  *)
(* fields in configured order, and JournalEntries.post turns each of them  *)
(* into one custom field reference of the line it submits.  Rows whose SKU *)
(* is no item are left aside.                                              *)
(***************************************************************************)
\* The script ids of the custom fields the row has a value for
RECURSIVE ConfiguredIds(_, _)
ConfiguredIds(row, n) ==
    IF n > Len(config.custom_fields) THEN <<>>
    ELSE (IF row[config.custom_fields[n].input_id] # NA
          THEN <<config.custom_fields[n].netsuite_id>> ELSE <<>>)
         \o ConfiguredIds(row, n + 1)

ExpectedScriptIds(row) ==
    (IF row["SKU"] # NA THEN <<config.sku_custom_field>> ELSE <<>>)
    \o ConfiguredIds(row, 1)

\* The SKU of the row is blank or that of an item
KnownSku(row) ==
    row["SKU"] = NA \/ \E i \in Range(NSItems) : i.itemId = row["SKU"]

\* The custom field assignments of a line
FieldsOf(line) ==
    IF "customFieldList" \in DOMAIN line THEN line.customFieldList ELSE <<>>

CustomFieldsTypedAndConverted ==
    /\ Built =>
           \A line \in AllLines :
               KnownSku(RowOfLine(line)) =>
                   /\ Len(FieldsOf(line))
                          = Len(ExpectedScriptIds(RowOfLine(line)))
                   /\ \A n \in 1..Len(FieldsOf(line)) :
                          /\ FieldsOf(line)[n].py = "dict"
                          /\ FieldsOf(line)[n].scriptId
                                 = ExpectedScriptIds(RowOfLine(line))[n]
    /\ error.stage = "post" => error.exc # "TypeError"
    /\ \A i \in 1..Len(submitted) :
           \A n \in 1..Len(journals[i].lineList) :
               FieldsOf(journals[i].lineList[n]) # <<>> =>
                   Len(submitted[i].lineList[n].customFieldList)
                       = Len(FieldsOf(journals[i].lineList[n]))

====
